---- MODULE Spec2Model ----
(***************************************************************************)
(* Model of the deepagents storage utilities:                              *)
(*   - BookmarkManager (storage/bookmarks.py): a PostgreSQL table of       *)
(*     bookmarks with initialize / save / get / list / delete;             *)
(*   - extract_last_messages (storage/checkpoint_utils.py): the pure       *)
(*     digest of a message list.                                           *)
(* Text is modelled as a sequence of one-character strings, so that        *)
(* slicing, joining and lengths are computed as Python computes them.      *)
(* Identifiers and names are whole strings: they are only compared.        *)
(***************************************************************************)
EXTENDS Integers, Sequences, FiniteSets, TLC

VARIABLES provisioned, rows, pc, tx, nextId, now, ret, tally,
          messages, max_length, result, metadata, shown

storeVars == <<provisioned, rows, pc, tx, nextId, now, ret>>
digestVars == <<messages, max_length, result>>
pickerVars == <<metadata, shown>>
vars == <<provisioned, rows, pc, tx, nextId, now, ret, tally,
          messages, max_length, result, metadata, shown>>

(***************************************************************************)
(* Bounds of the model.                                                    *)
(***************************************************************************)
\* number of save calls a behaviour starts (each draws one uuid4)
MaxSaves == 2

\* longest message list handed to extract_last_messages
MaxMsgs == 3

\* longest plain message text, in characters
MaxText == 6

\* most blocks in one list content
MaxBlocks == 3

\* a max_length shorter than the longest text of the message lists
ShortMaxLength == 4

\* highest step number in a checkpoint's metadata
MaxStep == 5

\* max_length: int = 100, the default of extract_last_messages
DefaultMaxLength == 100

(***************************************************************************)
(* Values.                                                                 *)
(***************************************************************************)
\* Python's None, for the optional columns name and description
None == "<None>"

\* concurrent callers of the manager (coroutines or processes)
Procs == {"p1", "p2"}

\* thread ids a caller passes; the empty string is a legal VARCHAR NOT NULL value
Threads == {"", "t1"}

Checkpoints == {"c1"}

\* names a user types that are not shaped like a generated id
UserNames == {"a"}

\* the description is stored and read back, never inspected
Descriptions == {"d1"}

\* the k-th string uuid4 hands out: str(uuid4()) is taken to be fresh on every call
UuidStr(k) == "u" \o ToString(k)

\* ids generated so far
IssuedIds == {UuidStr(k) : k \in 1..nextId}

\* ids a user can read off the store and type back as a name
VisibleIds == {b.id : b \in rows}

Bookmark(id, thread_id, checkpoint_id, name, description, created_at) ==
    [id |-> id, thread_id |-> thread_id, checkpoint_id |-> checkpoint_id,
     name |-> name, description |-> description, created_at |-> created_at]

\* no save in flight
NoTx == [id |-> None]

\* what the last completed call handed back: op, its argument, the exception
\* raised (None when it returned), and the returned value
Ret(op, arg, exc, val) == [op |-> op, arg |-> arg, exc |-> exc, val |-> val]

(***************************************************************************)
(* The table conversation_bookmarks as PostgreSQL keeps it.                *)
(***************************************************************************)
\* WHERE name = %s OR id = %s: a NULL name never equals the identifier
Matches(b, identifier) ==
    (b.name # None /\ b.name = identifier) \/ b.id = identifier

\* mutant: a UNIQUE (name) under which two NULL names collide
UniqueViolationNullsEqual(row, table) ==
    \E b \in table : b.id = row.id \/ b.name = row.name

\* mutant: the table without CONSTRAINT unique_bookmark_name
UniqueViolationPkOnly(row, table) ==
    \E b \in table : b.id = row.id

\* PRIMARY KEY (id) and CONSTRAINT unique_bookmark_name UNIQUE (name):
\* a UNIQUE column admits any number of NULLs
UniqueViolation(row, table) ==
    \E b \in table :
        \/ b.id = row.id
        \/ (row.name # None /\ b.name = row.name)

\* mutant: uniqueness checked against committed rows only, as a SELECT
\* before the INSERT would
InsertNeverWaits(p) == FALSE

\* an INSERT whose key equals that of another transaction's uncommitted row
\* waits for that transaction to end
InsertWaits(p) ==
    \E q \in Procs \ {p} : pc[q] = "commit" /\ UniqueViolation(tx[p], {tx[q]})

\* Python truthiness of an optional string: None and "" are both falsy
Truthy(s) == s # None /\ s # ""

\* the rows a SELECT of list() reads
Selected(thread_id) ==
    IF Truthy(thread_id) THEN {b \in rows : b.thread_id = thread_id} ELSE rows

\* ORDER BY created_at DESC
OrderedDesc(s) ==
    \A i, j \in 1..Len(s) : i < j => s[i].created_at >= s[j].created_at

\* every order the engine may hand a set of rows back in under ORDER BY
\* created_at DESC: rows with equal created_at come in any order
Orderings(S) ==
    {s \in [1..Cardinality(S) -> S] :
        /\ \A i, j \in 1..Cardinality(S) : i # j => s[i] # s[j]
        /\ OrderedDesc(s)}

(***************************************************************************)
(* Initial state: a database without the table, no call in flight.         *)
(***************************************************************************)
NamePool == UserNames \cup {UuidStr(k) : k \in 1..MaxSaves}

StoreInit ==
    /\ provisioned = FALSE
    /\ rows = {}
    /\ pc = [p \in Procs |-> "idle"]
    /\ tx = [p \in Procs |-> NoTx]
    /\ nextId = 0
    /\ now = 0
    /\ ret = Ret("none", None, None, None)
    /\ tally = [n \in NamePool |->
                    [ok |-> 0, conflict |-> 0, error |-> 0, raced |-> 0]]

(***************************************************************************)
(* BookmarkManager.initialize: CREATE TABLE IF NOT EXISTS ... ; commit.    *)
(***************************************************************************)
\* mutant: DROP TABLE IF EXISTS before the CREATE TABLE
InitializeRecreate ==
    /\ provisioned' = TRUE
    /\ rows' = {}
    /\ ret' = Ret("initialize", None, None, None)
    /\ UNCHANGED <<pc, tx, nextId, now>>

Initialize ==
    /\ provisioned' = TRUE
    /\ ret' = Ret("initialize", None, None, None)
    /\ UNCHANGED <<rows, pc, tx, nextId, now>>

(***************************************************************************)
(* BookmarkManager.save, in the three steps other callers can interleave   *)
(* with: the locals (uuid4, now), the INSERT, the commit.                  *)
(***************************************************************************)
SaveBeginP(p, thread_id, checkpoint_id, name, description) ==
    /\ pc[p] = "idle"
    /\ nextId < MaxSaves
    /\ nextId' = nextId + 1
    /\ \E t \in {now, now + 1} :
        /\ now' = t
        /\ tx' = [tx EXCEPT ![p] =
                    Bookmark(UuidStr(nextId + 1), thread_id, checkpoint_id,
                             name, description, t)]
    /\ pc' = [pc EXCEPT ![p] = "insert"]
    /\ UNCHANGED <<provisioned, rows, ret>>

SaveBegin ==
    \E p \in Procs, thread_id \in Threads, checkpoint_id \in Checkpoints,
       name \in {None} \cup UserNames \cup VisibleIds,
       description \in Descriptions :
        SaveBeginP(p, thread_id, checkpoint_id, name, description)

SaveArgs(b) ==
    [thread_id |-> b.thread_id, checkpoint_id |-> b.checkpoint_id,
     name |-> b.name, description |-> b.description]

\* mutant: the UniqueViolation is not caught and escapes as a storage error
SaveInsertPUncaught(p) ==
    /\ pc[p] = "insert"
    /\ IF ~provisioned \/ UniqueViolation(tx[p], rows)
       THEN /\ ret' = Ret("save", SaveArgs(tx[p]), "StorageError", None)
            /\ pc' = [pc EXCEPT ![p] = "idle"]
            /\ tx' = [tx EXCEPT ![p] = NoTx]
       ELSE /\ ~InsertWaits(p)
            /\ pc' = [pc EXCEPT ![p] = "commit"]
            /\ UNCHANGED <<tx, ret>>
    /\ UNCHANGED <<provisioned, rows, nextId, now>>

SaveInsertP(p) ==
    /\ pc[p] = "insert"
    /\ IF ~provisioned
       THEN \* relation does not exist: the error is not caught by save
            /\ ret' = Ret("save", SaveArgs(tx[p]), "StorageError", None)
            /\ pc' = [pc EXCEPT ![p] = "idle"]
            /\ tx' = [tx EXCEPT ![p] = NoTx]
       ELSE IF UniqueViolation(tx[p], rows)
       THEN \* except psycopg.errors.UniqueViolation: raise ValueError
            /\ ret' = Ret("save", SaveArgs(tx[p]), "ValueError", None)
            /\ pc' = [pc EXCEPT ![p] = "idle"]
            /\ tx' = [tx EXCEPT ![p] = NoTx]
       ELSE /\ ~InsertWaits(p)
            /\ pc' = [pc EXCEPT ![p] = "commit"]
            /\ UNCHANGED <<tx, ret>>
    /\ UNCHANGED <<provisioned, rows, nextId, now>>

SaveInsert == \E p \in Procs : SaveInsertP(p)

SaveCommitP(p) ==
    /\ pc[p] = "commit"
    /\ rows' = rows \cup {tx[p]}
    /\ ret' = Ret("save", SaveArgs(tx[p]), None, tx[p])
    /\ pc' = [pc EXCEPT ![p] = "idle"]
    /\ tx' = [tx EXCEPT ![p] = NoTx]
    /\ UNCHANGED <<provisioned, nextId, now>>

SaveCommit == \E p \in Procs : SaveCommitP(p)

(***************************************************************************)
(* BookmarkManager.get: SELECT ... WHERE name = %s OR id = %s LIMIT 1.     *)
(* The optional Bookmark is the set of at most one row; with several       *)
(* matching rows LIMIT 1 without ORDER BY returns any one of them.         *)
(***************************************************************************)
GetI(identifier) ==
    /\ IF ~provisioned
       THEN ret' = Ret("get", identifier, "StorageError", None)
       ELSE LET found == {b \in rows : Matches(b, identifier)}
            IN  IF found = {}
                THEN ret' = Ret("get", identifier, None, {})
                ELSE \E b \in found : ret' = Ret("get", identifier, None, {b})
    /\ UNCHANGED <<provisioned, rows, pc, tx, nextId, now>>

Get == \E identifier \in UserNames \cup IssuedIds : GetI(identifier)

(***************************************************************************)
(* BookmarkManager.list                                                    *)
(***************************************************************************)
ListT(thread_id) ==
    /\ IF ~provisioned
       THEN ret' = Ret("list", thread_id, "StorageError", None)
       ELSE \E s \in Orderings(Selected(thread_id)) :
                ret' = Ret("list", thread_id, None, s)
    /\ UNCHANGED <<provisioned, rows, pc, tx, nextId, now>>

List == \E thread_id \in {None} \cup Threads : ListT(thread_id)

(***************************************************************************)
(* BookmarkManager.delete: DELETE ... WHERE name = %s OR id = %s; the      *)
(* result is rowcount > 0.                                                 *)
(***************************************************************************)
\* mutant: DELETE ... WHERE name = %s
DeleteIByName(identifier) ==
    /\ IF ~provisioned
       THEN /\ ret' = Ret("delete", identifier, "StorageError", None)
            /\ rows' = rows
       ELSE LET gone == {b \in rows : b.name = identifier}
            IN  /\ rows' = rows \ gone
                /\ ret' = Ret("delete", identifier, None, Cardinality(gone) > 0)
    /\ UNCHANGED <<provisioned, pc, tx, nextId, now>>

DeleteI(identifier) ==
    /\ IF ~provisioned
       THEN /\ ret' = Ret("delete", identifier, "StorageError", None)
            /\ rows' = rows
       ELSE LET gone == {b \in rows : Matches(b, identifier)}
            IN  /\ rows' = rows \ gone
                /\ ret' = Ret("delete", identifier, None, Cardinality(gone) > 0)
    /\ UNCHANGED <<provisioned, pc, tx, nextId, now>>

Delete == \E identifier \in UserNames \cup IssuedIds : DeleteI(identifier)

(***************************************************************************)
(* checkpoint_utils.extract_last_messages.                                 *)
(*                                                                         *)
(* A message is [type, content]; type Missing stands for a dict without    *)
(* the key.  A content is one of                                           *)
(*   kind "str"     a Python str, its characters in str                    *)
(*   kind "list"    a list of blocks, in blocks                            *)
(*   kind "other"   any other object, str(content) in str                  *)
(*   kind "missing" no "content" key                                       *)
(* and a block is one of                                                   *)
(*   kind "dict"    a mapping; type is its "type" entry (Missing when      *)
(*                  absent), textKind says whether its "text" entry is a   *)
(*                  str ("str", characters in text), absent ("missing")    *)
(*                  or some other object ("nonstr")                        *)
(*   kind "str"     a bare string, its characters in text                  *)
(*   kind "other"   anything else                                          *)
(***************************************************************************)
Missing == "<missing>"

Message(type, content) == [type |-> type, content |-> content]

StrContent(s) == [kind |-> "str", str |-> s, blocks |-> <<>>]
ListContent(bs) == [kind |-> "list", str |-> <<>>, blocks |-> bs]
OtherContent(repr) == [kind |-> "other", str |-> repr, blocks |-> <<>>]
NoContent == [kind |-> "missing", str |-> <<>>, blocks |-> <<>>]

DictBlock(type, textKind, text) ==
    [kind |-> "dict", type |-> type, textKind |-> textKind, text |-> text]
StrBlock(s) == [kind |-> "str", type |-> Missing, textKind |-> "str", text |-> s]
OtherBlock == [kind |-> "other", type |-> Missing, textKind |-> "missing", text |-> <<>>]

\* the marker appended on truncation
Ellipsis == <<".", ".", ".">>

\* Python's s[:k]: a negative k counts from the end
SliceTo(s, k) ==
    LET n == IF k >= 0 THEN (IF k < Len(s) THEN k ELSE Len(s))
             ELSE (IF Len(s) + k > 0 THEN Len(s) + k ELSE 0)
    IN  SubSeq(s, 1, n)

\* mutant: the marker's length is taken to be two
TruncateOffByOne(content, maxlen) ==
    IF Len(content) > maxlen
    THEN SliceTo(content, maxlen - 2) \o Ellipsis
    ELSE content

\* if len(content) > max_length: content = content[: max_length - 3] + "..."
Truncate(content, maxlen) ==
    IF Len(content) > maxlen
    THEN SliceTo(content, maxlen - 3) \o Ellipsis
    ELSE content

\* " ".join(text_parts)
RECURSIVE Join(_)
Join(parts) ==
    IF parts = <<>> THEN <<>>
    ELSE IF Len(parts) = 1 THEN parts[1]
    ELSE parts[1] \o <<" ">> \o Join(Tail(parts))

\* mutant: every mapping contributes, whatever its type
BlockAppendsAnyDict(block) == block.kind = "dict" \/ block.kind = "str"

\* whether the loop over the blocks appends something for this block
BlockAppends(block) ==
    \/ (block.kind = "dict" /\ block.type = "text")
    \/ block.kind = "str"

\* what it appends: block.get("text", "") or the bare string itself; isStr
\* records whether the appended object is a str
BlockPart(block) ==
    IF block.kind = "dict"
    THEN [isStr |-> block.textKind # "nonstr",
          s |-> IF block.textKind = "str" THEN block.text ELSE <<>>]
    ELSE [isStr |-> TRUE, s |-> block.text]

\* text_parts after the loop over the first i blocks
RECURSIVE TextParts(_, _)
TextParts(blocks, i) ==
    IF i = 0 THEN <<>>
    ELSE IF BlockAppends(blocks[i])
         THEN Append(TextParts(blocks, i - 1), BlockPart(blocks[i]))
         ELSE TextParts(blocks, i - 1)

\* the str a message's content becomes before truncation; exc is "TypeError"
\* when " ".join meets an item that is not a str
ContentText(content) ==
    IF content.kind = "list"
    THEN LET parts == TextParts(content.blocks, Len(content.blocks))
         IN  IF \E k \in 1..Len(parts) : ~parts[k].isStr
             THEN [exc |-> "TypeError", text |-> <<>>]
             ELSE [exc |-> None,
                   text |-> Join([k \in 1..Len(parts) |-> parts[k].s])]
    ELSE [exc |-> None, text |-> content.str]

\* msg.get("type", "")
MsgType(msg) == IF msg.type = Missing THEN "" ELSE msg.type

\* mutant: without the "is None" tests the oldest message of a role wins
ScanStepOverwrite(acc, msg, maxlen) ==
    LET ct == ContentText(msg.content)
        content == Truncate(ct.text, maxlen)
    IN  IF ct.exc # None
        THEN [acc EXCEPT !.exc = ct.exc]
        ELSE IF MsgType(msg) = "human"
        THEN [acc EXCEPT !.human = {content}]
        ELSE IF MsgType(msg) = "ai"
        THEN [acc EXCEPT !.ai = {content}]
        ELSE acc

\* one pass of the loop body over msg; acc holds last_human and last_ai, each
\* the empty set for None or the singleton of the captured text
ScanStep(acc, msg, maxlen) ==
    LET ct == ContentText(msg.content)
        content == Truncate(ct.text, maxlen)
    IN  IF ct.exc # None
        THEN [acc EXCEPT !.exc = ct.exc]
        ELSE IF MsgType(msg) = "human" /\ acc.human = {}
        THEN [acc EXCEPT !.human = {content}]
        ELSE IF MsgType(msg) = "ai" /\ acc.ai = {}
        THEN [acc EXCEPT !.ai = {content}]
        ELSE acc

\* for msg in reversed(messages), from index i down, leaving the loop once
\* both are captured or an exception escapes
RECURSIVE Scan(_, _, _, _)
Scan(msgs, i, acc, maxlen) ==
    IF i = 0 \/ acc.exc # None \/ (acc.human # {} /\ acc.ai # {})
    THEN acc
    ELSE Scan(msgs, i - 1, ScanStep(acc, msgs[i], maxlen), maxlen)

extract_last_messages(msgs, maxlen) ==
    Scan(msgs, Len(msgs), [exc |-> None, human |-> {}, ai |-> {}], maxlen)

\* the call has not been made yet
Pending == [exc |-> "pending", human |-> {}, ai |-> {}]

Extract ==
    /\ result = Pending
    /\ result' = extract_last_messages(messages, max_length)
    /\ UNCHANGED <<messages, max_length>>

(***************************************************************************)
(* checkpoint_utils.should_include_checkpoint.  A checkpoint's metadata is *)
(* [source, step]; source Missing stands for a dict without the key, and   *)
(* None for a null value.  The answer is the empty set before the call     *)
(* and the singleton of the returned bool after it.                        *)
(***************************************************************************)
\* mutant: a missing source counts as a user input
should_include_checkpoint_default_input(checkpoint_metadata) ==
    LET source == IF checkpoint_metadata.source = Missing
                  THEN "input" ELSE checkpoint_metadata.source
    IN  source \in {"input", "loop", "fork"}

\* source = checkpoint_metadata.get("source", "")
\* return source in ("input", "loop", "fork")
should_include_checkpoint(checkpoint_metadata) ==
    LET source == IF checkpoint_metadata.source = Missing
                  THEN "" ELSE checkpoint_metadata.source
    IN  source \in {"input", "loop", "fork"}

Include ==
    /\ shown = {}
    /\ shown' = {should_include_checkpoint(metadata)}
    /\ UNCHANGED metadata

PickerIdle ==
    /\ metadata = [source |-> Missing, step |-> 0]
    /\ shown = {}

(***************************************************************************)
(* The store's specification.                                              *)
(***************************************************************************)
DigestIdle ==
    /\ messages = <<>>
    /\ max_length = DefaultMaxLength
    /\ result = Pending

Init == StoreInit /\ DigestIdle /\ PickerIdle

Next ==
    \/ Initialize /\ UNCHANGED <<tally, digestVars, pickerVars>>
    \/ SaveBegin /\ UNCHANGED <<tally, digestVars, pickerVars>>
    \/ SaveInsert /\ UNCHANGED <<tally, digestVars, pickerVars>>
    \/ SaveCommit /\ UNCHANGED <<tally, digestVars, pickerVars>>
    \/ Get /\ UNCHANGED <<tally, digestVars, pickerVars>>
    \/ List /\ UNCHANGED <<tally, digestVars, pickerVars>>
    \/ Delete /\ UNCHANGED <<tally, digestVars, pickerVars>>

Spec == Init /\ [][Next]_vars

(***************************************************************************)
(* Concurrent and sequential save calls alone, with a count per name of    *)
(* how the calls that came back ended (ok: a Bookmark was returned,        *)
(* conflict: ValueError, error: any other exception although the table     *)
(* exists) and of the calls that started while another call with the same  *)
(* name was in flight.                                                     *)
(***************************************************************************)
Tallied(name, field) ==
    IF name = None THEN tally ELSE [tally EXCEPT ![name][field] = @ + 1]

InFlight(name) == {q \in Procs : pc[q] # "idle" /\ tx[q].name = name}

RaceSaveBegin ==
    \E p \in Procs, thread_id \in Threads, checkpoint_id \in Checkpoints,
       name \in {None} \cup UserNames \cup VisibleIds,
       description \in Descriptions :
        /\ SaveBeginP(p, thread_id, checkpoint_id, name, description)
        /\ tally' = IF InFlight(name) # {} THEN Tallied(name, "raced") ELSE tally

RaceSaveInsert ==
    \E p \in Procs :
        /\ SaveInsertP(p)
        /\ tally' = IF pc'[p] # "idle" THEN tally
                    ELSE IF ret'.exc = "ValueError"
                    THEN Tallied(tx[p].name, "conflict")
                    ELSE IF provisioned
                    THEN Tallied(tx[p].name, "error")
                    ELSE tally

RaceSaveCommit ==
    \E p \in Procs :
        /\ SaveCommitP(p)
        /\ tally' = Tallied(tx[p].name, "ok")

NextRace ==
    \/ Initialize /\ UNCHANGED <<tally, digestVars, pickerVars>>
    \/ RaceSaveBegin /\ UNCHANGED <<digestVars, pickerVars>>
    \/ RaceSaveInsert /\ UNCHANGED <<digestVars, pickerVars>>
    \/ RaceSaveCommit /\ UNCHANGED <<digestVars, pickerVars>>

SpecRace == Init /\ [][NextRace]_vars

(***************************************************************************)
(* extract_last_messages applied to message lists: every list of up to     *)
(* MaxMsgs messages over a few roles and contents.                         *)
(***************************************************************************)
Roles == {"human", "ai", "tool", Missing}

ListMessages ==
    {Message(t, c) :
        t \in Roles,
        c \in {StrContent(<<"h">>),
               StrContent(<<"l", "o", "n", "g", "e", "r">>),
               ListContent(<<DictBlock("text", "str", <<"b">>)>>)}}

SeqsUpTo(S, n) == UNION {[1..k -> S] : k \in 0..n}

InitDigest ==
    /\ StoreInit
    /\ messages \in SeqsUpTo(ListMessages, MaxMsgs)
    /\ max_length \in {ShortMaxLength, DefaultMaxLength}
    /\ result = Pending
    /\ PickerIdle

NextDigest == Extract /\ UNCHANGED <<storeVars, tally, pickerVars>>

SpecDigest == InitDigest /\ [][NextDigest]_vars

(***************************************************************************)
(* extract_last_messages applied to one message, over every shape of       *)
(* content and every max_length around the lengths of the texts.           *)
(***************************************************************************)
Xs(n) == [i \in 1..n |-> "x"]

Blocks ==
    {DictBlock("text", "str", <<"a">>),
     DictBlock("text", "str", <<"b", "c">>),
     DictBlock("text", "missing", <<>>),
     DictBlock("text", "nonstr", <<>>),
     DictBlock("tool_use", "missing", <<>>),
     DictBlock("tool_use", "str", <<"t">>),
     DictBlock(Missing, "str", <<"u">>),
     StrBlock(<<"s">>),
     OtherBlock}

Contents ==
    {StrContent(Xs(n)) : n \in 0..MaxText}
    \cup {ListContent(bs) : bs \in SeqsUpTo(Blocks, MaxBlocks)}
    \cup {OtherContent(<<"4", "2">>), NoContent}

InitText ==
    /\ StoreInit
    /\ messages \in {<<Message(t, c)>> : t \in {"human", "ai"}, c \in Contents}
    /\ max_length \in 0..(MaxText + 1)
    /\ result = Pending
    /\ PickerIdle

SpecText == InitText /\ [][NextDigest]_vars

(***************************************************************************)
(* should_include_checkpoint applied to metadata with every kind of source *)
(* value: the three shown ones, other LangGraph sources, near misses, a    *)
(* null and no source at all.                                              *)
(***************************************************************************)
Sources ==
    {"input", "loop", "fork", "update", "tool", "", "Input", "loops",
     None, Missing}

InitPicker ==
    /\ StoreInit
    /\ DigestIdle
    /\ metadata \in [source : Sources, step : (-1)..MaxStep]
    /\ shown = {}

NextPicker == Include /\ UNCHANGED <<storeVars, tally, digestVars>>

SpecPicker == InitPicker /\ [][NextPicker]_vars

(***************************************************************************)
(* Properties of the bookmark store.                                       *)
(***************************************************************************)
Named(n) == {b \in rows : b.name = n}

\* C1: of the save calls with one name run against the provisioned store,
\* concurrently or one after the other, at most one returns a Bookmark,
\* every other one raises ValueError (none fails otherwise), a ValueError
\* means some call won, and the rows with that name are exactly the winner's.
C1_OneSaveWins ==
    \A n \in NamePool :
        /\ tally[n].ok <= 1
        /\ tally[n].error = 0
        /\ tally[n].conflict > 0 => tally[n].ok = 1
        /\ (tally[n].ok + tally[n].conflict > 0 /\ InFlight(n) = {})
              => tally[n].ok = 1
        /\ Cardinality(Named(n)) = tally[n].ok

\* two calls with the same name overlapped; one won, one got ValueError
C1_Witness ==
    \E n \in NamePool :
        /\ tally[n].raced = 1
        /\ tally[n].ok = 1
        /\ tally[n].conflict = 1
        /\ InFlight(n) = {}
        /\ Cardinality(Named(n)) = 1

\* C2: no two stored bookmarks share an id, and no two share a non-null name.
C2_UniqueIdAndName ==
    \A b1, b2 \in rows :
        b1 # b2 => /\ b1.id # b2.id
                   /\ (b1.name # None => b1.name # b2.name)

\* a named and an unnamed bookmark are stored, the second just saved
C2_Witness ==
    /\ Cardinality(rows) = 2
    /\ \E b \in rows : b.name # None
    /\ \E b \in rows : b.name = None
    /\ ret.op = "save"
    /\ ret.exc = None

\* C3: a get of the name, or of the id, of the Bookmark that the save just
\* completed returned, hands back that same Bookmark.
C3_SaveThenGet ==
    [][\A identifier \in UserNames \cup IssuedIds :
          ( /\ ret.op = "save"
            /\ ret.exc = None
            /\ identifier \in {ret.val.name, ret.val.id}
            /\ GetI(identifier) )
          => ret'.val = {ret.val}]_vars

\* C4: list(thread_id) returns exactly the rows of that thread, list() all
\* rows, either most recent first.
C4_ListExactThread ==
    (ret.op = "list" /\ ret.exc = None) =>
        LET want == IF ret.arg = None THEN rows
                    ELSE {b \in rows : b.thread_id = ret.arg}
        IN  /\ {ret.val[i] : i \in 1..Len(ret.val)} = want
            /\ Len(ret.val) = Cardinality(want)
            /\ OrderedDesc(ret.val)

\* C5: on the provisioned store delete returns true exactly when a row has
\* the identifier as its name or id, no such row is left afterwards, and a
\* delete of the identifier just deleted returns false without raising.
C5_DeleteReportsRemoval ==
    [][\A identifier \in UserNames \cup IssuedIds :
          (provisioned /\ DeleteI(identifier)) =>
              /\ ret'.exc = None
              /\ ret'.val = (\E b \in rows :
                                b.name = identifier \/ b.id = identifier)
              /\ ~\E b \in rows' : b.name = identifier \/ b.id = identifier
              /\ (ret.op = "delete" /\ ret.exc = None /\ ret.arg = identifier)
                    => ret'.val = FALSE]_vars

\* a delete by id returned true and took the row with it, leaving another
C5_Witness ==
    /\ ret.op = "delete"
    /\ ret.exc = None
    /\ ret.val = TRUE
    /\ ret.arg \in IssuedIds
    /\ Cardinality(rows) = 1
    /\ \A b \in rows : b.id # ret.arg /\ b.name # ret.arg

\* C6: with nothing to find, get returns absent, delete returns false and
\* list returns the empty sequence, without raising or changing the rows.
C6_NotFoundIsNoError ==
    [][provisioned =>
        /\ \A identifier \in UserNames \cup IssuedIds :
              (~\E b \in rows : b.name = identifier \/ b.id = identifier) =>
                  /\ GetI(identifier) =>
                        (ret' = Ret("get", identifier, None, {}) /\ rows' = rows)
                  /\ DeleteI(identifier) =>
                        (ret' = Ret("delete", identifier, None, FALSE)
                            /\ rows' = rows)
        /\ \A thread_id \in Threads :
              (~\E b \in rows : b.thread_id = thread_id) =>
                  (ListT(thread_id) =>
                      (ret' = Ret("list", thread_id, None, <<>>)
                          /\ rows' = rows))]_vars

\* C7: a save whose name a stored bookmark has raises ValueError, returns no
\* Bookmark and leaves the rows as they were; ValueError is raised for
\* nothing but such a name.
C7_NameConflict ==
    [][\A p \in Procs :
          SaveInsertP(p) =>
              /\ (tx[p].name # None /\ Named(tx[p].name) # {}) =>
                    /\ ret' = Ret("save", SaveArgs(tx[p]), "ValueError", None)
                    /\ rows' = rows
              /\ (pc'[p] = "idle" /\ ret'.exc = "ValueError") =>
                    (tx[p].name # None /\ Named(tx[p].name) # {})]_vars

\* a save was refused for a name that a stored bookmark holds
C7_Witness ==
    /\ ret.op = "save"
    /\ ret.exc = "ValueError"
    /\ ret.arg.name # None
    /\ Named(ret.arg.name) # {}
    /\ Cardinality(rows) = 1

\* C13: initialize succeeds whenever it is called, also on the provisioned
\* store with bookmarks in it; it leaves the table provisioned, every row as
\* it was, the saves in flight untouched, and the same inserts rejected.
C13_InitializeIdempotent ==
    [][Initialize =>
          /\ ret' = Ret("initialize", None, None, None)
          /\ provisioned'
          /\ rows' = rows
          /\ tx' = tx /\ pc' = pc
          /\ \A p \in Procs :
                pc[p] # "idle" =>
                    (UniqueViolation(tx[p], rows') = UniqueViolation(tx[p], rows))
      ]_vars

\* initialize has just returned on a store that holds a named bookmark
C13_Witness ==
    /\ ret.op = "initialize"
    /\ ret.exc = None
    /\ provisioned
    /\ \E b \in rows : b.name # None

\* C14: no identifier is the name or id of more than one stored bookmark.
C14_AtMostOneMatch ==
    \A identifier \in UserNames \cup IssuedIds :
        Cardinality({b \in rows : b.name = identifier \/ b.id = identifier}) <= 1

\* C15: on the provisioned store the INSERT of a save without a name, and of
\* a save whose name no stored bookmark has (any more), is accepted, never
\* answered with ValueError; an unnamed save waits for no other save; and
\* unnamed bookmarks have ids of their own.
C15_AbsentNamesNeverConflict ==
    [][/\ \A p \in Procs :
            (provisioned /\ pc[p] = "insert" /\ tx[p].name = None)
                => ~InsertWaits(p)
       /\ \A p \in Procs :
            (provisioned /\ SaveInsertP(p)
                /\ (tx[p].name = None \/ Named(tx[p].name) = {}))
                => pc'[p] = "commit"
       /\ \A b1, b2 \in rows' :
            (b1.name = None /\ b2.name = None /\ b1 # b2) => b1.id # b2.id
      ]_vars

\* two unnamed bookmarks of one thread and checkpoint are stored together
C15_Witness ==
    /\ ret.op = "save"
    /\ ret.exc = None
    /\ Cardinality(rows) = 2
    /\ \A b \in rows : b.name = None /\ b.thread_id = "t1"

(***************************************************************************)
(* Properties of extract_last_messages.                                    *)
(***************************************************************************)
EndsWith(s, e) ==
    Len(s) >= Len(e) /\ SubSeq(s, Len(s) - Len(e) + 1, Len(s)) = e

\* the slot of the result that the one message of the list lands in
OnlySlot == IF messages[1].type = "human" THEN result.human ELSE result.ai

\* the full text of the one message of the list
OnlyText == ContentText(messages[1].content).text

TruncationContract(s, text, maxlen) ==
    /\ Len(text) <= maxlen => s = text
    /\ Len(text) >= maxlen + 1 => (Len(s) = maxlen /\ EndsWith(s, Ellipsis))
    /\ Len(s) <= maxlen

LastOf(role) ==
    LET at == {i \in 1..Len(messages) : messages[i].type = role}
    IN  IF at = {} THEN 0 ELSE CHOOSE i \in at : \A j \in at : j <= i

TextOfLast(role) ==
    IF LastOf(role) = 0 THEN {}
    ELSE {Truncate(ContentText(messages[LastOf(role)].content).text, max_length)}

\* C9: the call returns the truncated text of the last human message and of
\* the last ai message, each absent exactly when there is no such message.
C9_LastOfEachRole ==
    result # Pending =>
        /\ result.exc = None
        /\ result.human = TextOfLast("human")
        /\ result.ai = TextOfLast("ai")

\* two human messages with different contents, then a tool message, no ai
C9_Witness ==
    /\ result # Pending
    /\ Len(messages) = 3
    /\ messages[1].type = "human"
    /\ messages[2].type = "human"
    /\ messages[1].content # messages[2].content
    /\ messages[3].type = "tool"
    /\ result.human # {}
    /\ result.ai = {}

\* a list content of the documented shape: a block tagged text has a str text
Documented(content) ==
    /\ content.kind = "list"
    /\ \A k \in 1..Len(content.blocks) :
          (content.blocks[k].kind = "dict" /\ content.blocks[k].type = "text")
              => content.blocks[k].textKind = "str"

TaggedText(block) == block.kind = "dict" /\ block.type = "text"

TaggedTextOrString(block) == TaggedText(block) \/ block.kind = "str"

\* the texts of the given blocks, joined by single spaces
JoinedTexts(kept) == Join([k \in 1..Len(kept) |-> kept[k].text])

\* C10 as stated: the text of a list content is the space-joined text of its
\* blocks tagged text, and no other block contributes.
C10_OnlyTaggedBlocks ==
    (result # Pending /\ Documented(messages[1].content)) =>
        /\ result.exc = None
        /\ OnlySlot = {Truncate(JoinedTexts(SelectSeq(messages[1].content.blocks,
                                                   TaggedText)),
                                max_length)}

\* C10, amended: the blocks tagged text and the blocks that are bare strings
\* contribute, in order; no other block does.
C10_TaggedAndStringBlocks ==
    (result # Pending /\ Documented(messages[1].content)) =>
        /\ result.exc = None
        /\ OnlySlot = {Truncate(JoinedTexts(SelectSeq(messages[1].content.blocks,
                                                   TaggedTextOrString)),
                                max_length)}

\* text, tool_use, text: the two texts joined by a space, nothing cut
C10_Witness ==
    /\ result # Pending
    /\ messages[1].content.kind = "list"
    /\ messages[1].content.blocks =
          <<DictBlock("text", "str", <<"a">>),
            DictBlock("tool_use", "str", <<"t">>),
            DictBlock("text", "str", <<"b", "c">>)>>
    /\ max_length = MaxText
    /\ OnlySlot = {<<"a", " ", "b", "c">>}

\* C12: extract_last_messages raises for no content, whatever its shape: it
\* always returns its pair.
C12_NeverRaises ==
    result # Pending => result.exc = None

(***************************************************************************)
(* Properties of should_include_checkpoint.                                *)
(***************************************************************************)
\* C11: the answer is true exactly when the metadata has a source and that
\* source is input, loop or fork.
C11_ShownIffAllowedSource ==
    \A answer \in shown :
        answer = TRUE <=>
            \/ (metadata.source # Missing /\ metadata.source = "input")
            \/ (metadata.source # Missing /\ metadata.source = "loop")
            \/ (metadata.source # Missing /\ metadata.source = "fork")

\* metadata without a source was classified as hidden
C11_Witness ==
    /\ metadata.source = Missing
    /\ shown = {FALSE}

====
